---- MODULE Spec2Model ----
(***************************************************************************)
(* Model of streamlit_app.py: the three profitability queries (kpis,       *)
(* top_skus, order_lines_table) as operators over a small relational       *)
(* store, the st.cache_data(ttl=300) result cache, and the top-to-bottom   *)
(* run of the script (secrets check, login, auth gate, filters, queries).  *)
(***************************************************************************)
EXTENDS Integers, Sequences, FiniteSets, TLC

VARIABLES
    orders,        \* mirakl.orders      : set of rows
    order_lines,   \* mirakl.order_lines : set of rows
    refunds,       \* mirakl.refunds     : set of rows
    call,          \* the last direct call of a query function and its result
    scan,          \* pages 1..k of order_lines_table fetched one call each
    clock,         \* seconds since process start
    cache,         \* st.cache_data entries: key -> [value, at]
    hist,          \* the last two cached-function calls
    pc,            \* position of the running script
    session_state, \* st.session_state
    auth_status,   \* module global read at line 50
    widgets,       \* values the widgets return in this run
    globals,       \* names bound in the module namespace so far
    secrets,       \* st.secrets / environment of the process
    executed,      \* store-reading functions entered in this run
    fetch          \* arguments and outcome of the detail-view fetch

vars == <<orders, order_lines, refunds, call, scan, clock, cache, hist,
          pc, session_state, auth_status, widgets, globals, secrets, executed, fetch>>

storeVars == <<orders, order_lines, refunds>>
callVars == <<call, scan>>
cacheVars == <<clock, cache, hist>>
runVars == <<pc, session_state, auth_status, widgets, globals, secrets, executed, fetch>>

(***************************************************************************)
(* Bounds of the model.                                                    *)
(***************************************************************************)
MaxRows == 2          \* at most this many orders (one line each) in a store
MaxPage == 4          \* largest page number requested
MaxPageSize == 2      \* largest page_size requested
TicksPerDay == 2      \* timestamps per calendar day
LastDay == 3          \* calendar days are 1..LastDay

(***************************************************************************)
(* Values.  A SQL numeric is NULL or N(n); a Python argument is None, a    *)
(* str or a list.                                                          *)
(***************************************************************************)
NULL == <<>>
N(n) == <<n>>
None == [none |-> TRUE]
PyStr(s) == [str |-> s]
PyList(l) == [list |-> l]

\* Python truthiness of an argument: None, "" and [] are falsy
Truthy(x) == x # None /\ x # PyStr("") /\ x # PyList(<<>>)

coalesce(x, y) == IF x # NULL THEN x ELSE y
Plus(x, y) == IF x = NULL \/ y = NULL THEN NULL ELSE N(x[1] + y[1])
Minus(x, y) == IF x = NULL \/ y = NULL THEN NULL ELSE N(x[1] - y[1])
Times(x, y) == IF x = NULL \/ y = NULL THEN NULL ELSE N(x[1] * y[1])

\* created_at::date
ToDate(ts) == ts \div TicksPerDay
\* a Python date bound to a timestamp parameter (midnight of that day)
Midnight(d) == d * TicksPerDay

RECURSIVE SumOver(_, _)
\* SQL sum(col) over a set of rows; NULLs are skipped
SumOver(rows, col) ==
    IF rows = {} THEN N(0)
    ELSE LET r == CHOOSE x \in rows : TRUE
             rest == SumOver(rows \ {r}, col)
         IN IF r[col] = NULL THEN rest ELSE Plus(r[col], rest)

Max(a, b) == IF a >= b THEN a ELSE b
Min(a, b) == IF a <= b THEN a ELSE b

\* all orderings of a finite set of rows as sequences
Perms(S) ==
    {s \in [1..Cardinality(S) -> S] : \A i, j \in 1..Cardinality(S) : i # j => s[i] # s[j]}

\* the result of a statement that the server rejects
SQLError(msg) == [ok |-> FALSE, error |-> msg]
Table(rows) == [ok |-> TRUE, rows |-> rows]

(***************************************************************************)
(* Bound parameters shared by the three queries.                           *)
(***************************************************************************)
\* (%(sku)s is null OR x.sku = %(sku)s)
SkuPredicate(p, sku) == p.sku = None \/ (p.sku # None /\ sku = p.sku.str)

\* (%(mkt)s is null OR x.marketplace_code = any(%(mkt)s))
MktPredicate(p, code) ==
    p.mkt = None \/ (p.mkt # None /\ \E i \in DOMAIN p.mkt.list : p.mkt.list[i] = code)

\* created_at >= %(start)s and created_at < %(end)s
InWindow(p, ts) == ts >= Midnight(p.start) /\ ts < Midnight(p["end"])

\* refunds CTE: group by order_id, line_id, marketplace_code of the refunds in the window
RefundsCTE(p) ==
    LET inwin == {r \in refunds : InWindow(p, r.created_at)}
        keys == {<<r.order_id, r.line_id, r.marketplace_code>> : r \in inwin}
        amt(g) == {[id |-> r.id, a |-> Plus(coalesce(r.amount_tax_excl, N(0)), coalesce(r.tax_amount, N(0)))] :
                     r \in {x \in inwin : <<x.order_id, x.line_id, x.marketplace_code>> = g}}
    IN {[order_id |-> g[1], line_id |-> g[2], marketplace_code |-> g[3],
         refund_amount |-> SumOver(amt(g), "a")] : g \in keys}

\* left join refunds r on the composite key, then coalesce(r.refund_amount, 0)
JoinedRefund(p, l) ==
    LET m == {r \in RefundsCTE(p) : r.order_id = l.order_id /\ r.line_id = l.line_id
                                    /\ r.marketplace_code = l.marketplace_code}
    IN IF m = {} THEN N(0) ELSE coalesce((CHOOSE r \in m : TRUE).refund_amount, N(0))

\* mirakl.orders o join mirakl.order_lines ol on order_id and marketplace_code
OrdersJoinLines ==
    {<<o, ol>> \in orders \X order_lines :
        ol.order_id = o.order_id /\ ol.marketplace_code = o.marketplace_code}

\* mirakl.marketplaces codes in "order by code" order
MarketplaceCodes == <<"FR", "UK">>
CodeRank(c) == CHOOSE i \in DOMAIN MarketplaceCodes : MarketplaceCodes[i] = c

(***************************************************************************)
(* kpis(start_dt, end_dt, mkt_codes, sku_filter)                           *)
(***************************************************************************)
kpis_params(start_dt, end_dt, mkt_codes, sku_filter) ==
    [start |-> start_dt,
     end   |-> end_dt + 1,
     mkt   |-> IF Truthy(mkt_codes) THEN mkt_codes ELSE None,
     sku   |-> IF Truthy(sku_filter) THEN sku_filter ELSE None]

\* the columns the "lines" CTE of kpis selects
kpis_lines_columns ==
    {"marketplace_code", "day", "sku", "qty", "price_ex", "tax", "ship_price",
     "fees_total", "order_id", "line_id"}

\* the columns of l that the "joined" CTE of kpis reads
kpis_joined_refs ==
    {"marketplace_code", "day", "sku", "qty", "price_incl", "price_ex", "tax",
     "fees_total", "order_id", "line_id"}

kpis_lines(p) ==
    {[marketplace_code |-> t[1].marketplace_code,
      day        |-> ToDate(t[1].created_at),
      sku        |-> t[2].sku,
      qty        |-> t[2].qty,
      price_ex   |-> coalesce(t[2].price_tax_excl, N(0)),
      tax        |-> coalesce(t[2].tax_amount, N(0)),
      ship_price |-> coalesce(t[2].shipping_price, N(0)),
      fees_total |-> coalesce(t[2].fees_total, N(0)),
      order_id   |-> t[2].order_id,
      line_id    |-> t[2].line_id] :
        t \in {x \in OrdersJoinLines : InWindow(p, x[1].created_at)}}

\* order_id and line_id stay in the row as its identity: SQL rows are a bag
kpis_joined(p) ==
    {[marketplace_code |-> l.marketplace_code, day |-> l.day, sku |-> l.sku,
      line_gmv |-> Times(l.qty, coalesce(l.price_incl, Plus(l.price_ex, l.tax))),
      refunds  |-> JoinedRefund(p, l),
      fees     |-> l.fees_total,
      order_id |-> l.order_id, line_id |-> l.line_id] :
        l \in {x \in kpis_lines(p) : SkuPredicate(p, x.sku) /\ MktPredicate(p, x.marketplace_code)}}

\* group by marketplace_code, day
kpis_groups(p) ==
    LET j == kpis_joined(p)
        grp(m, d) == {r \in j : r.marketplace_code = m /\ r.day = d}
    IN {[marketplace_code |-> k[1], day |-> k[2],
         gmv     |-> SumOver(grp(k[1], k[2]), "line_gmv"),
         refunds |-> SumOver(grp(k[1], k[2]), "refunds"),
         fees    |-> SumOver(grp(k[1], k[2]), "fees"),
         contribution |-> Minus(Minus(SumOver(grp(k[1], k[2]), "line_gmv"),
                                       SumOver(grp(k[1], k[2]), "refunds")),
                                SumOver(grp(k[1], k[2]), "fees"))] :
            k \in {<<r.marketplace_code, r.day>> : r \in j}}

\* order by day, marketplace_code
kpis_ordered(p) ==
    CHOOSE s \in Perms(kpis_groups(p)) :
        \A i, j \in DOMAIN s : i < j =>
            \/ s[i].day < s[j].day
            \/ s[i].day = s[j].day /\ CodeRank(s[i].marketplace_code) < CodeRank(s[j].marketplace_code)

\* pd.read_sql(sql, ...): the server resolves every column reference before it runs the statement
kpis(start_dt, end_dt, mkt_codes, sku_filter) ==
    LET p == kpis_params(start_dt, end_dt, mkt_codes, sku_filter)
    IN IF ~(kpis_joined_refs \subseteq kpis_lines_columns)
       THEN SQLError("UndefinedColumn")
       ELSE Table(kpis_ordered(p))

(***************************************************************************)
(* top_skus(start_dt, end_dt, mkt_codes, sku_filter)                       *)
(***************************************************************************)
top_skus_params(start_dt, end_dt, mkt_codes, sku_filter) ==
    [start |-> start_dt,
     end   |-> end_dt + 1,
     mkt   |-> IF Truthy(mkt_codes) THEN mkt_codes ELSE None,
     sku   |-> IF Truthy(sku_filter) THEN sku_filter ELSE None]

top_skus_lines_columns ==
    {"marketplace_code", "sku", "qty", "price_ex", "price_incl", "tax", "fees",
     "order_id", "line_id"}

top_skus_joined_refs ==
    {"marketplace_code", "sku", "qty", "price_ex", "tax", "fees", "order_id", "line_id"}

top_skus_lines(p) ==
    {[marketplace_code |-> t[1].marketplace_code,
      sku        |-> t[2].sku,
      qty        |-> t[2].qty,
      price_ex   |-> coalesce(t[2].price_tax_excl, N(0)),
      price_incl |-> coalesce(t[2].price_tax_incl, NULL),
      tax        |-> coalesce(t[2].tax_amount, N(0)),
      fees       |-> coalesce(t[2].fees_total, N(0)),
      order_id   |-> t[2].order_id,
      line_id    |-> t[2].line_id] :
        t \in {x \in OrdersJoinLines : InWindow(p, x[1].created_at)}}

top_skus_joined(p) ==
    {[marketplace_code |-> l.marketplace_code, sku |-> l.sku,
      qty      |-> l.qty,
      line_gmv |-> Times(l.qty, Plus(l.price_ex, l.tax)),
      refunds  |-> JoinedRefund(p, l),
      fees     |-> l.fees,
      order_id |-> l.order_id, line_id |-> l.line_id] :
        l \in {x \in top_skus_lines(p) : SkuPredicate(p, x.sku) /\ MktPredicate(p, x.marketplace_code)}}

\* group by marketplace_code, sku
top_skus_groups(p) ==
    LET j == top_skus_joined(p)
        grp(m, k) == {r \in j : r.marketplace_code = m /\ r.sku = k}
    IN {[marketplace_code |-> g[1], sku |-> g[2],
         units   |-> SumOver(grp(g[1], g[2]), "qty"),
         gmv     |-> SumOver(grp(g[1], g[2]), "line_gmv"),
         refunds |-> SumOver(grp(g[1], g[2]), "refunds"),
         fees    |-> SumOver(grp(g[1], g[2]), "fees"),
         contribution |-> Minus(Minus(SumOver(grp(g[1], g[2]), "line_gmv"),
                                       SumOver(grp(g[1], g[2]), "refunds")),
                                SumOver(grp(g[1], g[2]), "fees"))] :
            g \in {<<r.marketplace_code, r.sku>> : r \in j}}

\* order by contribution desc: rows of equal contribution come in any order
top_skus_orderings(p) ==
    {s \in Perms(top_skus_groups(p)) :
        \A i, j \in DOMAIN s : i < j => s[i].contribution[1] >= s[j].contribution[1]}

\* the results one call of top_skus can return
top_skus(start_dt, end_dt, mkt_codes, sku_filter) ==
    LET p == top_skus_params(start_dt, end_dt, mkt_codes, sku_filter)
    IN IF ~(top_skus_joined_refs \subseteq top_skus_lines_columns)
       THEN {SQLError("UndefinedColumn")}
       ELSE {Table(s) : s \in top_skus_orderings(p)}

(***************************************************************************)
(* order_lines_table(start_date, end_date, sku, marketplaces, page,        *)
(*                   page_size)                                            *)
(***************************************************************************)
order_lines_table_params(start_date, end_date, sku, marketplaces, page, page_size) ==
    [start  |-> start_date,
     end    |-> end_date + 1,
     sku    |-> sku,
     mkt    |-> IF Truthy(marketplaces) THEN marketplaces ELSE None,
     offset |-> (Max(1, page) - 1) * page_size,
     limit  |-> page_size]

order_lines_table_lines(p) ==
    {[day |-> ToDate(t[1].created_at),
      marketplace_code |-> t[1].marketplace_code,
      order_id   |-> t[2].order_id,
      line_id    |-> t[2].line_id,
      sku        |-> t[2].sku,
      qty        |-> t[2].qty,
      unit_gross |-> coalesce(t[2].price_tax_incl, Plus(t[2].price_tax_excl, t[2].tax_amount)),
      line_gmv   |-> Times(t[2].qty, coalesce(t[2].price_tax_incl,
                                               Plus(t[2].price_tax_excl, t[2].tax_amount))),
      fees       |-> coalesce(t[2].fees_total, N(0))] :
        t \in {x \in OrdersJoinLines :
                  /\ InWindow(p, x[1].created_at)
                  /\ SkuPredicate(p, x[2].sku)
                  /\ MktPredicate(p, x[1].marketplace_code)}}

order_lines_table_joined(p) ==
    {[day |-> l.day, marketplace_code |-> l.marketplace_code, order_id |-> l.order_id,
      line_id |-> l.line_id, sku |-> l.sku, qty |-> l.qty,
      unit_gross |-> l.unit_gross,
      line_gmv   |-> l.line_gmv,
      refunds    |-> JoinedRefund(p, l),
      fees       |-> l.fees] : l \in order_lines_table_lines(p)}

\* order by day desc, order_id desc, line_id desc: rows equal on all three keys come in any order
order_lines_table_orderings(p) ==
    {s \in Perms(order_lines_table_joined(p)) :
        \A i, j \in DOMAIN s : i < j =>
            \/ s[i].day > s[j].day
            \/ s[i].day = s[j].day /\ s[i].order_id > s[j].order_id
            \/ s[i].day = s[j].day /\ s[i].order_id = s[j].order_id /\ s[i].line_id >= s[j].line_id}

\* select *, count(*) over() as total_count ... offset %(offset)s limit %(limit)s
order_lines_table_window(p, s) ==
    LET rows == SubSeq(s, p.offset + 1, Min(Len(s), p.offset + p.limit))
    IN [i \in DOMAIN rows |->
          [day |-> rows[i].day, marketplace_code |-> rows[i].marketplace_code,
           order_id |-> rows[i].order_id, line_id |-> rows[i].line_id,
           sku |-> rows[i].sku, qty |-> rows[i].qty, unit_gross |-> rows[i].unit_gross,
           line_gmv |-> rows[i].line_gmv, refunds |-> rows[i].refunds, fees |-> rows[i].fees,
           total_count |-> Len(s)]]

\* df.rename(columns={...})
COLUMN_NAMES ==
    [marketplace_code |-> "Marketplace", day |-> "Day", order_id |-> "Order #",
     sku |-> "SKU", qty |-> "Qty", unit_gross |-> "Unit (inc VAT)",
     line_gmv |-> "Line GMV", refunds |-> "Refunds", fees |-> "Fees"]

Renamed(c) == IF c \in DOMAIN COLUMN_NAMES THEN COLUMN_NAMES[c] ELSE c

\* df.drop(columns=["total_count"]) then df.rename(...)
order_lines_table_friendly(df) ==
    [i \in DOMAIN df |->
        [c \in {Renamed(k) : k \in DOMAIN df[i] \ {"total_count"}} |->
            df[i][CHOOSE k \in DOMAIN df[i] \ {"total_count"} : Renamed(k) = c]]]

\* total = int(df["total_count"].iloc[0]) if not df.empty else 0
order_lines_table_total(df) == IF df # <<>> THEN df[1].total_count ELSE 0

\* the (df, total) pairs one call of order_lines_table can return
order_lines_table(start_date, end_date, sku, marketplaces, page, page_size) ==
    LET p == order_lines_table_params(start_date, end_date, sku, marketplaces, page, page_size)
    IN {[df    |-> IF order_lines_table_window(p, s) # <<>>
                   THEN order_lines_table_friendly(order_lines_table_window(p, s))
                   ELSE order_lines_table_window(p, s),
         total |-> order_lines_table_total(order_lines_table_window(p, s))] :
            s \in order_lines_table_orderings(p)}

(***************************************************************************)
(* Store contents and call arguments the specifications draw from.  Money  *)
(* is in whole units; the store holds one line per order.                  *)
(***************************************************************************)
OrderKeys == {<<1, "FR">>, <<1, "UK">>, <<2, "FR">>}
CreatedAts == {Midnight(1), Midnight(2) + TicksPerDay - 1}
LineVariants ==
    {[sku |-> "A1", price_tax_incl |-> NULL],
     [sku |-> "A1", price_tax_incl |-> N(13)],
     [sku |-> "B2", price_tax_incl |-> NULL]}

OrderRow(k, ts) == [order_id |-> k[1], marketplace_code |-> k[2], created_at |-> ts]
LineRow(k, v) ==
    [order_id |-> k[1], line_id |-> 1, marketplace_code |-> k[2], sku |-> v.sku,
     qty |-> N(2), price_tax_excl |-> N(10), price_tax_incl |-> v.price_tax_incl,
     tax_amount |-> N(2), shipping_price |-> N(0), fees_total |-> N(1)]

\* refunds of line (1, 1, "FR"): one on day 1, one on the last day
RefundRows ==
    {[id |-> 1, order_id |-> 1, line_id |-> 1, marketplace_code |-> "FR",
      created_at |-> Midnight(1) + 1, amount_tax_excl |-> N(2), tax_amount |-> N(1)],
     [id |-> 2, order_id |-> 1, line_id |-> 1, marketplace_code |-> "FR",
      created_at |-> Midnight(LastDay), amount_tax_excl |-> N(4), tax_amount |-> NULL]}

\* every order line references an existing order of the same marketplace
Stores ==
    {st \in [orders : SUBSET {OrderRow(k, ts) : k \in OrderKeys, ts \in CreatedAts},
             order_lines : SUBSET {LineRow(k, v) : k \in OrderKeys, v \in LineVariants},
             refunds : SUBSET RefundRows] :
        /\ Cardinality(st.orders) <= MaxRows
        /\ Cardinality(st.order_lines) = Cardinality(st.orders)
        /\ \A o1, o2 \in st.orders :
              o1.order_id = o2.order_id /\ o1.marketplace_code = o2.marketplace_code => o1 = o2
        /\ \A ol \in st.order_lines :
              \E o \in st.orders : o.order_id = ol.order_id /\ o.marketplace_code = ol.marketplace_code
        /\ \A l1, l2 \in st.order_lines :
              l1.order_id = l2.order_id /\ l1.marketplace_code = l2.marketplace_code => l1 = l2}

DateRanges == {<<1, 2>>, <<1, LastDay>>}
MktArgs == {None, PyList(<<>>), PyList(<<"FR">>)}
SkuArgs == {None, PyStr("A1")}
Pages == 1..MaxPage
PageSizes == 1..MaxPageSize

NoCall == [op |-> "none"]
NoScan == [active |-> FALSE]

(***************************************************************************)
(* Direct calls of the three query functions over an unchanged store.      *)
(***************************************************************************)
NoFetch == [called |-> FALSE]
RunOff ==
    /\ pc = "off"
    /\ session_state = [authentication_status |-> "None"]
    /\ auth_status = "unset"
    /\ widgets = [none |-> TRUE]
    /\ globals = <<>>
    /\ secrets = [DATABASE_URL |-> TRUE]
    /\ executed = {}
    /\ fetch = NoFetch

CacheOff == clock = 0 /\ cache = <<>> /\ hist = <<>>

InitQuery ==
    /\ \E st \in Stores :
          orders = st.orders /\ order_lines = st.order_lines /\ refunds = st.refunds
    /\ call = NoCall
    /\ scan = NoScan
    /\ CacheOff
    /\ RunOff

\* each behaviour makes one call, or one page-by-page read, over the store it starts with
Idle == call = NoCall /\ scan = NoScan

CallKpis ==
    /\ Idle
    /\ \E d \in DateRanges, m \in MktArgs, k \in SkuArgs :
        /\ call' = [op |-> "kpis",
                    args |-> [start_dt |-> d[1], end_dt |-> d[2], mkt_codes |-> m, sku_filter |-> k],
                    result |-> kpis(d[1], d[2], m, k)]
        /\ scan' = NoScan
        /\ UNCHANGED <<storeVars, cacheVars, runVars>>

CallTopSkus ==
    /\ Idle
    /\ \E d \in DateRanges, m \in MktArgs, k \in SkuArgs :
        \E r \in top_skus(d[1], d[2], m, k) :
            /\ call' = [op |-> "top_skus",
                        args |-> [start_dt |-> d[1], end_dt |-> d[2], mkt_codes |-> m, sku_filter |-> k],
                        result |-> r]
            /\ scan' = NoScan
            /\ UNCHANGED <<storeVars, cacheVars, runVars>>

CallOrderLines ==
    /\ Idle
    /\ \E d \in DateRanges, m \in MktArgs, k \in SkuArgs, pg \in Pages, ps \in PageSizes :
        \E r \in order_lines_table(d[1], d[2], k, m, pg, ps) :
            /\ call' = [op |-> "order_lines_table",
                        args |-> [start_date |-> d[1], end_date |-> d[2], sku |-> k,
                                  marketplaces |-> m, page |-> pg, page_size |-> ps],
                        result |-> r]
            /\ scan' = NoScan
            /\ UNCHANGED <<storeVars, cacheVars, runVars>>

\* the number of order lines the filter of a detail call matches
MatchingCount(a) ==
    Cardinality(order_lines_table_lines(
        order_lines_table_params(a.start_date, a.end_date, a.sku, a.marketplaces, 1, a.page_size)))

\* max(1, ceil(total / page_size))
LastPage(total, page_size) == Max(1, (total + page_size - 1) \div page_size)

\* a caller begins to read the detail table page by page
ScanStart ==
    /\ Idle
    /\ \E d \in DateRanges, m \in MktArgs, k \in SkuArgs, ps \in PageSizes :
        /\ scan' = [active |-> TRUE,
                    args |-> [start_date |-> d[1], end_date |-> d[2], sku |-> k,
                              marketplaces |-> m, page_size |-> ps],
                    pages |-> <<>>]
        /\ call' = NoCall
        /\ UNCHANGED <<storeVars, cacheVars, runVars>>

\* the caller fetches the next page with one more call of order_lines_table
ScanNext ==
    /\ scan.active
    /\ Len(scan.pages) < LastPage(MatchingCount(scan.args), scan.args.page_size)
    /\ \E r \in order_lines_table(scan.args.start_date, scan.args.end_date, scan.args.sku,
                                  scan.args.marketplaces, Len(scan.pages) + 1, scan.args.page_size) :
          scan' = [scan EXCEPT !.pages = Append(@, r.df)]
    /\ UNCHANGED <<call, storeVars, cacheVars, runVars>>

NextQuery == CallKpis \/ CallTopSkus \/ CallOrderLines \/ ScanStart \/ ScanNext

SpecQuery == InitQuery /\ [][NextQuery]_vars

(***************************************************************************)
(* What the claims measure the results against.                            *)
(***************************************************************************)
\* the order lines of orders of days d1..d2 that pass the sku and marketplace filters;
\* an absent (None) or empty filter passes every line
IncludedLines(d1, d2, mkt, sku) ==
    {t[2] : t \in {x \in OrdersJoinLines :
        /\ ToDate(x[1].created_at) \in d1..d2
        /\ (sku = None \/ x[2].sku = sku.str)
        /\ (mkt = None \/ mkt = PyList(<<>>)
              \/ \E i \in DOMAIN mkt.list : mkt.list[i] = x[1].marketplace_code)}}

DayOf(ol) ==
    ToDate((CHOOSE o \in orders : o.order_id = ol.order_id
                                  /\ o.marketplace_code = ol.marketplace_code).created_at)

UnitGross(ol) ==
    IF ol.price_tax_incl # NULL THEN ol.price_tax_incl ELSE Plus(ol.price_tax_excl, ol.tax_amount)
LineGMV(ol) == Times(ol.qty, UnitGross(ol))
LineFees(ol) == IF ol.fees_total # NULL THEN ol.fees_total ELSE N(0)

\* R: the sum over all refund rows of the line, whatever their dates
RefundTotal(ol) ==
    SumOver({[id |-> r.id,
              a |-> Plus(IF r.amount_tax_excl = NULL THEN N(0) ELSE r.amount_tax_excl,
                         IF r.tax_amount = NULL THEN N(0) ELSE r.tax_amount)] :
                r \in {x \in refunds : x.order_id = ol.order_id /\ x.line_id = ol.line_id
                                       /\ x.marketplace_code = ol.marketplace_code}}, "a")

LineKey(ol) == <<ol.order_id, ol.line_id, ol.marketplace_code>>
TotalGMV(ls) == SumOver({[k |-> LineKey(ol), v |-> LineGMV(ol)] : ol \in ls}, "v")
TotalRefunds(ls) == SumOver({[k |-> LineKey(ol), v |-> RefundTotal(ol)] : ol \in ls}, "v")
TotalFees(ls) == SumOver({[k |-> LineKey(ol), v |-> LineFees(ol)] : ol \in ls}, "v")
TotalQty(ls) == SumOver({[k |-> LineKey(ol), v |-> ol.qty] : ol \in ls}, "v")

\* the lines an aggregation call includes, and those a detail call includes
AggLines(a) == IncludedLines(a.start_dt, a.end_dt, a.mkt_codes, a.sku_filter)
DetailLines(a) == IncludedLines(a.start_date, a.end_date, a.marketplaces, a.sku)

\* the order line a row of the detail table shows
LineOfRow(row) ==
    CHOOSE ol \in order_lines :
        LineKey(ol) = <<row["Order #"], row["line_id"], row["Marketplace"]>>

RowsOf(df) == {df[i] : i \in DOMAIN df}

RECURSIVE Concat(_)
Concat(pages) == IF pages = <<>> THEN <<>> ELSE Head(pages) \o Concat(Tail(pages))

\* C3: order_lines_table returns, with every page, the number of order lines the filter
\* matches, whatever the page number and page size
C3_TotalCountOnEveryPage ==
    call.op = "order_lines_table" =>
        call.result.total = Cardinality(DetailLines(call.args))

\* C4: the pages 1..maxPage of order_lines_table, concatenated in order, are the full
\* result ordered by (day desc, order_id desc, line_id desc): every matching line once
C4_PagesConcatenateToFullResult ==
    (scan.active /\ Len(scan.pages) = LastPage(Cardinality(DetailLines(scan.args)), scan.args.page_size)) =>
        LET s == Concat(scan.pages)
        IN /\ Len(s) = Cardinality(DetailLines(scan.args))
           /\ \A i, j \in DOMAIN s : i # j => s[i] # s[j]
           /\ {<<s[i]["Order #"], s[i]["line_id"], s[i]["Marketplace"]>> : i \in DOMAIN s}
                 = {LineKey(ol) : ol \in DetailLines(scan.args)}
           /\ \A i, j \in DOMAIN s : i < j =>
                 \/ s[i]["Day"] > s[j]["Day"]
                 \/ s[i]["Day"] = s[j]["Day"] /\ s[i]["Order #"] > s[j]["Order #"]
                 \/ s[i]["Day"] = s[j]["Day"] /\ s[i]["Order #"] = s[j]["Order #"]
                       /\ s[i]["line_id"] >= s[j]["line_id"]

\* C5: in kpis, top_skus and order_lines_table every included line contributes the sum R of
\* all its refund rows, whatever their dates, and its GMV and fees once
C5_RefundAttribution ==
    /\ call.op = "kpis" =>
          /\ call.result.ok
          /\ {<<r.marketplace_code, r.day>> : r \in RowsOf(call.result.rows)}
                = {<<ol.marketplace_code, DayOf(ol)>> : ol \in AggLines(call.args)}
          /\ \A r \in RowsOf(call.result.rows) :
                LET g == {ol \in AggLines(call.args) :
                             ol.marketplace_code = r.marketplace_code /\ DayOf(ol) = r.day}
                IN r.refunds = TotalRefunds(g) /\ r.gmv = TotalGMV(g) /\ r.fees = TotalFees(g)
    /\ call.op = "top_skus" =>
          /\ call.result.ok
          /\ {<<r.marketplace_code, r.sku>> : r \in RowsOf(call.result.rows)}
                = {<<ol.marketplace_code, ol.sku>> : ol \in AggLines(call.args)}
          /\ \A r \in RowsOf(call.result.rows) :
                LET g == {ol \in AggLines(call.args) :
                             ol.marketplace_code = r.marketplace_code /\ ol.sku = r.sku}
                IN r.refunds = TotalRefunds(g) /\ r.gmv = TotalGMV(g) /\ r.fees = TotalFees(g)
    /\ call.op = "order_lines_table" =>
          /\ \A i, j \in DOMAIN call.result.df : i # j => call.result.df[i] # call.result.df[j]
          /\ \A r \in RowsOf(call.result.df) :
                /\ r["Refunds"] = RefundTotal(LineOfRow(r))
                /\ r["Line GMV"] = LineGMV(LineOfRow(r))
                /\ r["Fees"] = LineFees(LineOfRow(r))

\* C6: all three operations take qty * unit_gross as the GMV of a line, unit_gross being
\* price_tax_incl when non-null and price_tax_excl + tax_amount otherwise, so their GMV
\* totals over one range and filter set agree
C6_UniformGMV ==
    /\ call.op = "kpis" =>
          call.result.ok /\ SumOver(RowsOf(call.result.rows), "gmv") = TotalGMV(AggLines(call.args))
    /\ call.op = "top_skus" =>
          call.result.ok /\ SumOver(RowsOf(call.result.rows), "gmv") = TotalGMV(AggLines(call.args))
    /\ call.op = "order_lines_table" =>
          \A r \in RowsOf(call.result.df) :
              /\ r["Unit (inc VAT)"] = UnitGross(LineOfRow(r))
              /\ r["Line GMV"] = LineGMV(LineOfRow(r))

AbsentFilters(mkt, sku) == sku = None /\ (mkt = None \/ mkt = PyList(<<>>))

\* C7: with sku absent and marketplace codes absent or empty, each operation returns the
\* result of the query without sku and marketplace predicates over the same date range
C7_AbsentFiltersPassThrough ==
    /\ (call.op = "kpis" /\ AbsentFilters(call.args.mkt_codes, call.args.sku_filter)) =>
          LET all == IncludedLines(call.args.start_dt, call.args.end_dt, None, None)
          IN /\ call.result.ok
             /\ {<<r.marketplace_code, r.day>> : r \in RowsOf(call.result.rows)}
                   = {<<ol.marketplace_code, DayOf(ol)>> : ol \in all}
             /\ SumOver(RowsOf(call.result.rows), "fees") = TotalFees(all)
    /\ (call.op = "top_skus" /\ AbsentFilters(call.args.mkt_codes, call.args.sku_filter)) =>
          LET all == IncludedLines(call.args.start_dt, call.args.end_dt, None, None)
          IN /\ call.result.ok
             /\ {<<r.marketplace_code, r.sku>> : r \in RowsOf(call.result.rows)}
                   = {<<ol.marketplace_code, ol.sku>> : ol \in all}
             /\ SumOver(RowsOf(call.result.rows), "units") = TotalQty(all)
             /\ SumOver(RowsOf(call.result.rows), "fees") = TotalFees(all)
    /\ (call.op = "order_lines_table" /\ AbsentFilters(call.args.marketplaces, call.args.sku)) =>
          LET all == IncludedLines(call.args.start_date, call.args.end_date, None, None)
              off == (call.args.page - 1) * call.args.page_size
          IN /\ Len(call.result.df) = Max(0, Min(call.args.page_size, Cardinality(all) - off))
             /\ \A r \in RowsOf(call.result.df) : LineOfRow(r) \in all
             /\ call.result.df # <<>> => call.result.total = Cardinality(all)

(***************************************************************************)
(* The result cache: @st.cache_data(ttl=300) on get_marketplaces,          *)
(* get_date_bounds, kpis and top_skus; order_lines_table has no decorator. *)
(***************************************************************************)
TTL == 300
TickSeconds == 150    \* the clock advances in steps of this many seconds
MaxClock == 450       \* the clock stops here

\* mirakl.marketplaces, a static reference table
Marketplaces ==
    <<[marketplace_code |-> "FR", name |-> "France"],
      [marketplace_code |-> "UK", name |-> "United Kingdom"]>>

\* select code as marketplace_code, name from mirakl.marketplaces order by code
get_marketplaces == Table(Marketplaces)

\* select min(created_at), max(created_at) from mirakl.orders: NULLs when there is no order
get_date_bounds ==
    LET ts == {o.created_at : o \in orders}
    IN IF ts = {} THEN [ok |-> TRUE, min_dt |-> NULL, max_dt |-> NULL]
       ELSE [ok |-> TRUE,
             min_dt |-> N(CHOOSE t \in ts : \A u \in ts : t <= u),
             max_dt |-> N(CHOOSE t \in ts : \A u \in ts : t >= u)]

CacheKey(op, args) == [op |-> op, args |-> args]

\* the entry of the key has not outlived its time-to-live
Fresh(ch, key) == key \in DOMAIN ch /\ clock - ch[key].at < TTL

\* the cache after a computation of the key: a raised exception stores nothing
CacheAfter(ch, key, r) ==
    IF r.ok
    THEN [k \in DOMAIN ch \cup {key} |->
             IF k = key THEN [value |-> r, at |-> clock] ELSE ch[k]]
    ELSE [k \in DOMAIN ch \ {key} |-> ch[k]]

\* time passes; entries that reached their time-to-live are dropped
Tick ==
    /\ pc \in {"off", "idle", "stopped", "exception", "done"}
    /\ clock + TickSeconds <= MaxClock
    /\ clock' = clock + TickSeconds
    /\ cache' = [k \in {x \in DOMAIN cache : clock' - cache[x].at < TTL} |-> cache[k]]
    /\ UNCHANGED <<storeVars, callVars, hist, runVars>>

\* hist keeps the last call and, when it had the same function and arguments, the one before
Record(h) ==
    hist' = IF hist # <<>> /\ hist[Len(hist)].op = h.op /\ hist[Len(hist)].args = h.args
            THEN <<hist[Len(hist)], h>>
            ELSE <<h>>

\* what a call of a function decorated with st.cache_data(ttl=300) can return, whether it
\* runs the function body (and so queries the store), and the cache it leaves
CacheOutcomes(ch, op, args, outcomes) ==
    LET key == CacheKey(op, args)
    IN IF Fresh(ch, key)
       THEN {[result |-> ch[key].value, queries |-> 0, cache |-> ch]}
       ELSE {[result |-> r, queries |-> 1, cache |-> CacheAfter(ch, key, r)] : r \in outcomes}

\* a direct call of a decorated function
CachedCall(op, args, outcomes) ==
    \E c \in CacheOutcomes(cache, op, args, outcomes) :
        /\ Record([op |-> op, args |-> args, at |-> clock,
                   result |-> c.result, queries |-> c.queries])
        /\ cache' = c.cache

\* a call of an undecorated function
PlainCall(op, args, outcomes) ==
    \E r \in outcomes :
        /\ Record([op |-> op, args |-> args, at |-> clock, result |-> r, queries |-> 1])
        /\ cache' = cache

CacheSkuArgs == {None}

CachedGetMarketplaces ==
    /\ CachedCall("get_marketplaces", <<>>, {get_marketplaces})
    /\ UNCHANGED <<storeVars, callVars, clock, runVars>>

CachedGetDateBounds ==
    /\ CachedCall("get_date_bounds", <<>>, {get_date_bounds})
    /\ UNCHANGED <<storeVars, callVars, clock, runVars>>

CachedKpis ==
    /\ \E k \in CacheSkuArgs :
          CachedCall("kpis", <<1, 2, None, k>>, {kpis(1, 2, None, k)})
    /\ UNCHANGED <<storeVars, callVars, clock, runVars>>

CachedTopSkus ==
    /\ \E k \in CacheSkuArgs :
          CachedCall("top_skus", <<1, 2, None, k>>, top_skus(1, 2, None, k))
    /\ UNCHANGED <<storeVars, callVars, clock, runVars>>

PlainOrderLines ==
    /\ \E k \in CacheSkuArgs :
          PlainCall("order_lines_table", <<1, 2, k, None, 1, MaxPageSize>>,
                    {[ok |-> TRUE, df |-> r.df, total |-> r.total] :
                        r \in order_lines_table(1, 2, k, None, 1, MaxPageSize)})
    /\ UNCHANGED <<storeVars, callVars, clock, runVars>>

\* the upstream pipeline ingests one more order with its line
Ingest ==
    /\ pc \in {"off", "idle", "stopped", "exception", "done"}
    /\ Cardinality(orders) < MaxRows
    /\ \E ts \in CreatedAts :
          LET k == <<Cardinality(orders) + 1, "FR">>
          IN /\ orders' = orders \cup {OrderRow(k, ts)}
             /\ order_lines' = order_lines \cup {LineRow(k, [sku |-> "A1", price_tax_incl |-> NULL])}
    /\ UNCHANGED <<refunds, callVars, cacheVars, runVars>>

InitCache ==
    /\ orders = {} /\ order_lines = {} /\ refunds = {}
    /\ call = NoCall
    /\ scan = NoScan
    /\ CacheOff
    /\ RunOff

NextCache ==
    \/ Tick \/ Ingest
    \/ CachedGetMarketplaces \/ CachedGetDateBounds \/ CachedKpis \/ CachedTopSkus
    \/ PlainOrderLines

SpecCache == InitCache /\ [][NextCache]_vars

\* C8: of two calls of one operation with identical parameters less than 300 seconds
\* apart the second returns the result of the first and issues no store query; a call
\* after the entry's time-to-live recomputes and replaces the entry
C8_ResultCache ==
    (Len(hist) = 2 /\ hist[1].op = hist[2].op /\ hist[1].args = hist[2].args) =>
        /\ hist[2].at - hist[1].at < TTL =>
              hist[2].queries = 0 /\ hist[2].result = hist[1].result
        /\ (hist[2].queries = 1 /\ hist[2].result.ok) =>
              LET key == CacheKey(hist[2].op, hist[2].args)
              IN key \in DOMAIN cache /\ cache[key].value = hist[2].result

(***************************************************************************)
(* The script, run top to bottom on every interaction.                     *)
(***************************************************************************)
PAGE_SIZE == 100

Ended == {"stopped", "exception", "done"}

\* the value of a module-level name, or the NameError its evaluation raises
Lookup(name) ==
    IF name \in DOMAIN globals
    THEN [ok |-> TRUE, value |-> globals[name]]
    ELSE [ok |-> FALSE, error |-> "NameError"]

Bind(g, name, value) == [n \in DOMAIN g \cup {name} |-> IF n = name THEN value ELSE g[n]]

\* the user interacts (or opens the page): the script runs again from the top
StartRun ==
    /\ pc \in {"idle"} \cup Ended
    /\ pc' = "secrets"
    /\ \E show \in BOOLEAN, nav \in {"none", "prev", "next"} :
          /\ (~show => nav = "none")
          /\ widgets' = [show_orders |-> show, nav |-> nav]
    /\ globals' = <<>>
    /\ auth_status' = "unset"
    /\ executed' = {}
    /\ fetch' = NoFetch
    /\ UNCHANGED <<storeVars, callVars, cacheVars, session_state, secrets>>

\* lines 15-17: no DATABASE_URL, no run
Secrets ==
    /\ pc = "secrets"
    /\ pc' = IF secrets.DATABASE_URL THEN "login" ELSE "stopped"
    /\ globals' = Bind(globals, "DATABASE_URL", secrets.DATABASE_URL)
    /\ UNCHANGED <<storeVars, callVars, cacheVars, session_state, auth_status, widgets,
                   secrets, executed, fetch>>

\* line 48: authenticator.login leaves the outcome in st.session_state: True for a valid
\* cookie or accepted credentials, False for rejected ones, None otherwise
Login ==
    /\ pc = "login"
    /\ \E status \in {"True", "False", "None"} :
          session_state' = [session_state EXCEPT !["authentication_status"] = status]
    /\ pc' = "gate"
    /\ UNCHANGED <<storeVars, callVars, cacheVars, auth_status, widgets, globals, secrets,
                   executed, fetch>>

\* a gate whose rejected branch does not stop the run
gate_passing_rejected(status) ==
    IF status = "True" THEN "sidebar"
    ELSE IF status = "False" THEN "sidebar"
    ELSE "stopped"

\* lines 54-61: where the run goes for an authentication status
gate(status) ==
    IF status = "True" THEN "sidebar"
    ELSE IF status = "False" THEN "stopped"
    ELSE "stopped"

\* lines 50-61
Gate ==
    /\ pc = "gate"
    /\ auth_status' = session_state["authentication_status"]
    /\ pc' = gate(auth_status')
    /\ UNCHANGED <<storeVars, callVars, cacheVars, session_state, widgets, globals, secrets,
                   executed, fetch>>

\* lines 64-66: the sidebar; a click on Logout clears the session and the run goes on
Sidebar ==
    /\ pc = "sidebar"
    /\ \E clicked \in BOOLEAN :
          session_state' = IF clicked
                           THEN [session_state EXCEPT !["authentication_status"] = "None"]
                           ELSE session_state
    /\ pc' = "get_marketplaces"
    /\ UNCHANGED <<storeVars, callVars, cacheVars, auth_status, widgets, globals, secrets,
                   executed, fetch>>

\* line 315
GetMarketplaces ==
    /\ pc = "get_marketplaces"
    /\ \E c \in CacheOutcomes(cache, "get_marketplaces", <<>>, {get_marketplaces}) :
          /\ cache' = c.cache
          /\ globals' = Bind(globals, "mkt_df", c.result)
    /\ executed' = executed \cup {"get_marketplaces"}
    /\ pc' = "filters"
    /\ UNCHANGED <<storeVars, callVars, clock, hist, session_state, auth_status, widgets,
                   secrets, fetch>>

\* what the user may have typed in the SKU box, and str.strip of it
SkuTexts == {"", " ", "A1", " A1 "}
strip(text) == IF text \in {"", " "} THEN "" ELSE "A1"

\* st.multiselect("Marketplace", mkt_codes, default=mkt_codes)
Selections == {PyList(MarketplaceCodes), PyList(<<"FR">>), PyList(<<>>)}

\* lines 318-336: the Filters panel
Filters ==
    /\ pc = "filters"
    /\ \E c \in CacheOutcomes(cache, "get_date_bounds", <<>>, {get_date_bounds}) :
          /\ cache' = c.cache
          /\ IF c.result.min_dt = NULL \/ c.result.max_dt = NULL
             THEN /\ pc' = "stopped"
                  /\ \E sel \in Selections : globals' = Bind(globals, "selected", sel)
             ELSE \E sel \in Selections, text \in SkuTexts,
                     d1, d2 \in ToDate(c.result.min_dt[1])..ToDate(c.result.max_dt[1]) :
                    /\ globals' =
                          IF d1 > d2
                          THEN Bind(Bind(Bind(globals, "selected", sel), "start_date", d1),
                                    "end_date", d2)
                          ELSE Bind(Bind(Bind(Bind(globals, "selected", sel), "start_date", d1),
                                         "end_date", d2),
                                    "sku_filter",
                                    IF strip(text) # "" THEN PyStr(strip(text)) ELSE None)
                    /\ pc' = IF d1 > d2 THEN "stopped" ELSE "render"
    /\ executed' = executed \cup {"get_date_bounds"}
    /\ UNCHANGED <<storeVars, callVars, clock, hist, session_state, auth_status, widgets,
                   secrets, fetch>>

\* line 383
max_page(total_rows, page_size) == Max(1, (total_rows + page_size - 1) \div page_size)

\* lines 373-394: fetch, clamp the page, fetch again; the states the view can end in
order_view(start_date, end_date, sku, marketplaces, order_page, page_size) ==
    UNION {
        IF order_page > max_page(r1.total, page_size)
        THEN {[order_page |-> max_page(r1.total, page_size),
               max_page   |-> max_page(r1.total, page_size),
               total_rows |-> r2.total,
               orders_df  |-> r2.df] :
                 r2 \in order_lines_table(start_date, end_date, sku, marketplaces,
                                          max_page(r1.total, page_size), page_size)}
        ELSE {[order_page |-> order_page,
               max_page   |-> max_page(r1.total, page_size),
               total_rows |-> r1.total,
               orders_df  |-> r1.df]} :
            r1 \in order_lines_table(start_date, end_date, sku, marketplaces, order_page, page_size)}

\* lines 361-370: the stored page after this run's Prev / Next click
order_page_after(nav) ==
    LET page == IF "order_page" \in DOMAIN session_state THEN session_state["order_page"] ELSE 1
    IN IF nav = "prev" THEN Max(1, page - 1)
       ELSE IF nav = "next" THEN page + 1
       ELSE page

SetPage(page) ==
    [n \in DOMAIN session_state \cup {"order_page"} |->
        IF n = "order_page" THEN page ELSE session_state[n]]

\* lines 359-406: the order-level view
OrderLevelView ==
    LET sku == Lookup("sku")
        marketplaces == Lookup("marketplaces")
    IN IF ~sku.ok \/ ~marketplaces.ok
       THEN /\ pc' = "exception"
            /\ session_state' = SetPage(order_page_after(widgets.nav))
            /\ executed' = executed \cup {"kpis"}
            /\ fetch' = fetch
       ELSE \E v \in order_view(globals["start_date"], globals["end_date"],
                                IF Truthy(sku.value) THEN sku.value ELSE None,
                                IF Truthy(marketplaces.value) THEN marketplaces.value ELSE None,
                                order_page_after(widgets.nav), PAGE_SIZE) :
               /\ pc' = "stopped"
               /\ session_state' = SetPage(v.order_page)
               /\ executed' = executed \cup {"kpis", "order_lines_table"}
               /\ fetch' = [called |-> TRUE,
                            sku |-> IF Truthy(sku.value) THEN sku.value ELSE None,
                            marketplaces |-> IF Truthy(marketplaces.value)
                                             THEN marketplaces.value ELSE None,
                            view |-> v]

\* lines 407-408: the SKU table
SkuTable(ch) ==
    \E t \in CacheOutcomes(ch, "top_skus",
                           <<globals["start_date"], globals["end_date"],
                             globals["selected"], globals["sku_filter"]>>,
                           top_skus(globals["start_date"], globals["end_date"],
                                    globals["selected"], globals["sku_filter"])) :
        /\ cache' = t.cache
        /\ pc' = IF t.result.ok THEN "done" ELSE "exception"
        /\ executed' = executed \cup {"kpis", "top_skus"}
        /\ UNCHANGED <<session_state, fetch>>

\* lines 338-408: daily totals, then the order-level view or the SKU table
Render ==
    /\ pc = "render"
    /\ \E c \in CacheOutcomes(cache, "kpis",
                              <<globals["start_date"], globals["end_date"],
                                globals["selected"], globals["sku_filter"]>>,
                              {kpis(globals["start_date"], globals["end_date"],
                                    globals["selected"], globals["sku_filter"])}) :
          IF ~c.result.ok
          THEN /\ pc' = "exception"
               /\ cache' = c.cache
               /\ executed' = executed \cup {"kpis"}
               /\ UNCHANGED <<session_state, fetch>>
          ELSE IF widgets.show_orders
               THEN cache' = c.cache /\ OrderLevelView
               ELSE SkuTable(c.cache)
    /\ UNCHANGED <<storeVars, callVars, clock, hist, auth_status, widgets, globals, secrets>>

Init ==
    /\ orders = {} /\ order_lines = {} /\ refunds = {}
    /\ call = NoCall
    /\ scan = NoScan
    /\ CacheOff
    /\ pc = "idle"
    /\ session_state = [authentication_status |-> "None"]
    /\ auth_status = "unset"
    /\ widgets = [show_orders |-> FALSE, nav |-> "none"]
    /\ globals = <<>>
    /\ secrets \in {[DATABASE_URL |-> TRUE], [DATABASE_URL |-> FALSE]}
    /\ executed = {}
    /\ fetch = NoFetch

Next ==
    \/ StartRun \/ Secrets \/ Login \/ Gate \/ Sidebar \/ GetMarketplaces \/ Filters \/ Render
    \/ Tick \/ Ingest

Spec == Init /\ [][Next]_vars

StoreFunctions == {"get_marketplaces", "get_date_bounds", "kpis", "top_skus", "order_lines_table"}

\* C1: no store-reading function is entered in a run unless the authentication status the
\* gate read is True, and a run whose status is False or None has stopped at the gate
C1_AuthGate ==
    /\ executed \subseteq StoreFunctions
    /\ executed # {} => auth_status = "True"
    /\ auth_status \in {"False", "None"} => pc = "stopped" /\ executed = {}

\* an authenticated run has read the reference data and issued the kpis query
C1_Witness ==
    auth_status = "True" /\ {"get_marketplaces", "get_date_bounds", "kpis"} \subseteq executed

\* C2: a detail view asked for a page beyond maxPage ends on page maxPage and shows the
\* rows a request for page maxPage returns
C2_ClampAndRefetch ==
    (/\ call.op = "order_lines_table"
     /\ call.args.page > LastPage(Cardinality(DetailLines(call.args)), call.args.page_size)) =>
        LET a == call.args
            last == LastPage(Cardinality(DetailLines(a)), a.page_size)
        IN \A v \in order_view(a.start_date, a.end_date, a.sku, a.marketplaces, a.page, a.page_size) :
              /\ v.order_page = last
              /\ v.orders_df \in {r.df : r \in order_lines_table(a.start_date, a.end_date, a.sku,
                                                                  a.marketplaces, last, a.page_size)}

\* C9: at the end of a render of the order-level view the stored page lies in 1..max_page
\* and max_page is max(1, ceil(total_rows / PAGE_SIZE)) for the total_rows shown with it;
\* Prev never takes the page below 1
C9_PaginationState ==
    /\ order_page_after("prev") >= 1
    /\ call.op = "order_lines_table" =>
          LET a == call.args
          IN \A v \in order_view(a.start_date, a.end_date, a.sku, a.marketplaces, a.page, a.page_size) :
                /\ 1 <= v.order_page /\ v.order_page <= v.max_page
                /\ v.max_page = LastPage(v.total_rows, a.page_size)

\* C10: a run with the order-level view enabled calls order_lines_table with the SKU and the
\* marketplace selection of the Filters panel, the values the same run passes to kpis, and
\* the fetch completes
C10_DetailViewUsesSelectedFilters ==
    (pc \in Ended /\ widgets.show_orders /\ "kpis" \in executed) =>
        /\ fetch.called
        /\ fetch.sku = globals["sku_filter"]
        /\ fetch.marketplaces = IF Truthy(globals["selected"]) THEN globals["selected"] ELSE None

====
